---- MODULE Spec2Model ----
(***************************************************************************)
(* A model of the MARBLE engine tool kit: the PRS ("YB") image codec       *)
(* (PRS_IMAGE_CONVERTER.py), the MgData archive unpacker / packer          *)
(* (ExMgData.py, PkMgData.py) and the MgGra archive unpacker / packer      *)
(* (ExmgGra.py, PkmgGra.py).  Files are sequences of bytes (0..255);       *)
(* indices in the comments are the 0-based indices of the Python source,   *)
(* the sequences themselves are 1-based.                                   *)
(***************************************************************************)
EXTENDS Integers, Sequences, FiniteSets, TLC

VARIABLES
    pc,             \* position of the run: which call comes next
    image, flag,    \* PRS: the PIL image handed to PrsWriter and the flag byte
    metadata,       \* PRS: PrsWriter.metadata (width, height, bpp, flag, packed_size)
    input,          \* PRS: PrsWriter.input (BGR(A), delta-filtered when flag bit 7)
    output,         \* PRS: PrsWriter.output (the BytesIO contents)
    hash_table,     \* PRS: PrsWriter.hash_table, hash value -> list of positions
    input_index, control, mask, control_buffer,   \* PRS: locals of PrsWriter.pack
    file,           \* PRS: the .prs file on disk
    rd,             \* PRS: the PrsReader object and the locals of PrsReader.unpack
    xs,             \* scratch of the pure-function specifications (xor, delta)
    mbl,            \* MgData: the archive process_mbl reads
    dir,            \* MgData: the output directory, file name -> contents
    json,           \* MgData: entries.json (parameters, and name -> hex in order)
    patch,          \* MgData: the patch argument of pack_files
    packed,         \* MgData, MgGra: the archive pack_files writes
    file_path,      \* MgGra: the path of the archive extract_mbl is given
    arc_file,       \* MgGra: what try_open_gra_mbl returned to extract_mbl
    redir           \* MgGra: the directory the repacked archive is extracted to

vars == <<pc, image, flag, metadata, input, output, hash_table, input_index,
          control, mask, control_buffer, file, rd, xs, mbl, dir, json, patch, packed,
          file_path, arc_file, redir>>

GraVars == <<file_path, arc_file, redir>>

GraIdle == file_path = <<>> /\ arc_file = <<>> /\ redir = <<>>

ArcVars == <<mbl, dir, json, patch, packed, file_path, arc_file, redir>>

ArcIdle ==
    /\ mbl = <<>> /\ dir = <<>> /\ json = <<>> /\ patch = "" /\ packed = <<>>
    /\ GraIdle

(***************************************************************************)
(* Bytes, bit operations, little-endian integers                           *)
(***************************************************************************)
Byte == 0 .. 255

Min(a, b) == IF a < b THEN a ELSE b
Max(a, b) == IF a > b THEN a ELSE b

RECURSIVE BitAnd(_, _)
BitAnd(a, b) ==
    IF a = 0 \/ b = 0 THEN 0
    ELSE (a % 2) * (b % 2) + 2 * BitAnd(a \div 2, b \div 2)

RECURSIVE BitOr(_, _)
BitOr(a, b) ==
    IF a = 0 THEN b
    ELSE IF b = 0 THEN a
    ELSE Max(a % 2, b % 2) + 2 * BitOr(a \div 2, b \div 2)

RECURSIVE BitXor(_, _)
BitXor(a, b) ==
    IF a = 0 THEN b
    ELSE IF b = 0 THEN a
    ELSE ((a + b) % 2) + 2 * BitXor(a \div 2, b \div 2)

\* struct.pack('<H', n) and struct.pack('<I', n)
U16LE(n) == <<n % 256, (n \div 256) % 256>>
U32LE(n) == <<n % 256, (n \div 256) % 256, (n \div 65536) % 256, (n \div 16777216) % 256>>
\* struct.unpack on the bytes at 0-based offset off of s
ReadU16(s, off) == s[off + 1] + 256 * s[off + 2]
ReadU32(s, off) == s[off + 1] + 256 * s[off + 2] + 65536 * s[off + 3] + 16777216 * s[off + 4]

Zeros(n) == [i \in 1 .. n |-> 0]

\* s[a:b] of Python for 0 <= a
Slice(s, a, b) ==
    LET e == Min(b, Len(s)) IN
    IF a >= e THEN <<>> ELSE [i \in 1 .. (e - a) |-> s[a + i]]

\* file.seek(off); file.write(data) on a file whose contents are s: the bytes are
\* overwritten in place and the file grows (zero-filled) when the write ends past it
WriteAt(s, off, data) ==
    LET n == Max(Len(s), off + Len(data)) IN
    [i \in 1 .. n |->
        IF i > off /\ i <= off + Len(data) THEN data[i - off]
        ELSE IF i <= Len(s) THEN s[i] ELSE 0]

(***************************************************************************)
(* PRS: the delta filter (PrsWriter.__init__ and the tail of               *)
(* PrsReader.unpack), written as the loops of the source                   *)
(***************************************************************************)
\* for i in range(len(x) - 1, s - 1, -1): x[i] = (x[i] - x[i - s] + 256) % 256
RECURSIVE DeltaEncodeFrom(_, _, _)
DeltaEncodeFrom(x, s, i) ==
    IF i < s THEN x
    ELSE DeltaEncodeFrom([x EXCEPT ![i + 1] = (x[i + 1] - x[i - s + 1] + 256) % 256], s, i - 1)

\* a variant of the encoder's loop that runs upwards, so that x[i - s] is already
\* filtered when x[i] is
RECURSIVE DeltaEncodeUpFrom(_, _, _)
DeltaEncodeUpFrom(x, s, i) ==
    IF i >= Len(x) THEN x
    ELSE DeltaEncodeUpFrom([x EXCEPT ![i + 1] = (x[i + 1] - x[i - s + 1] + 256) % 256], s, i + 1)

DeltaEncodeUp(x, s) == DeltaEncodeUpFrom(x, s, s)

DeltaEncode(x, s) == DeltaEncodeFrom(x, s, Len(x) - 1)

\* for i in range(s, len(x)): x[i] = (x[i] + x[i - s]) % 256
RECURSIVE DeltaDecodeFrom(_, _, _)
DeltaDecodeFrom(x, s, i) ==
    IF i >= Len(x) THEN x
    ELSE DeltaDecodeFrom([x EXCEPT ![i + 1] = (x[i + 1] + x[i - s + 1]) % 256], s, i + 1)

DeltaDecode(x, s) == DeltaDecodeFrom(x, s, s)

(***************************************************************************)
(* PRS: PrsWriter                                                          *)
(***************************************************************************)
\* image.mode == 'RGBA' and 32 or 24
BppOf(img) == IF img.mode = "RGBA" THEN 32 ELSE 24

\* The conversion loop of PrsWriter.__init__: pixel (x, y) goes to
\* idx = y * stride + x * depth, its first three channels reversed (BGR), the
\* alpha channel kept in place.  img.pixels is row-major, so pixel k starts at
\* k * depth.
ToBGR(img) ==
    LET depth == BppOf(img) \div 8 IN
    [i \in 1 .. (img.width * img.height * depth) |->
        LET k == (i - 1) \div depth
            j == (i - 1) % depth
        IN  IF j < 3 THEN img.pixels[k + 1][3 - j] ELSE img.pixels[k + 1][4]]

\* PrsWriter.hash
Hash(inp, index) ==
    IF index + 3 > Len(inp) THEN 0
    ELSE inp[index + 1] + 256 * inp[index + 2] + 65536 * inp[index + 3]

\* the inner while of find_longest_match
RECURSIVE MatchRun(_, _, _, _, _)
MatchRun(inp, index, offset, max_length, length) ==
    IF length < max_length /\ inp[index + length + 1] = inp[offset + length + 1]
    THEN MatchRun(inp, index, offset, max_length, length + 1)
    ELSE length

\* the for loop of find_longest_match over the chain, from its k-th element;
\* best = <<match_length, match_offset>>
RECURSIVE ScanChain(_, _, _, _, _, _, _)
ScanChain(inp, chain, k, index, max_offset, max_length, best) ==
    IF k > Len(chain) THEN best
    ELSE LET offset == chain[k] IN
         IF index - offset > max_offset
         THEN ScanChain(inp, chain, k + 1, index, max_offset, max_length, best)
         ELSE LET length == MatchRun(inp, index, offset, max_length, 0) IN
              IF length > best[1]
              THEN IF length = max_length
                   THEN <<length, index - offset>>
                   ELSE ScanChain(inp, chain, k + 1, index, max_offset, max_length,
                                  <<length, index - offset>>)
              ELSE ScanChain(inp, chain, k + 1, index, max_offset, max_length, best)

\* PrsWriter.find_longest_match: <<match_length, match_offset>>
find_longest_match(inp, table, index) ==
    LET h == Hash(inp, index) IN
    IF h \notin DOMAIN table THEN <<0, 0>>
    ELSE LET max_offset == Min(index, 8192)
             max_length == Min(Len(inp) - index, 256)
             best == ScanChain(inp, table[h], 1, index, max_offset, max_length, <<0, 0>>)
         IN  IF best[1] < 3 THEN <<0, 0>> ELSE best

\* hash_table[h].append(i), creating the list when h is new
Register(table, inp, i) ==
    LET h == Hash(inp, i) IN
    IF h \in DOMAIN table
    THEN [table EXCEPT ![h] = Append(table[h], i)]
    ELSE [k \in DOMAIN table \cup {h} |-> IF k = h THEN <<i>> ELSE table[k]]

\* for i in range(from, to): register i
RECURSIVE RegisterRange(_, _, _, _)
RegisterRange(table, inp, from, to) ==
    IF from >= to THEN table
    ELSE RegisterRange(Register(table, inp, from), inp, from + 1, to)

\* a variant of the update that also registers the position of a literal
UpdateHashTableWithLiterals(table, inp, index, match_length) ==
    RegisterRange(table, inp, index - Max(match_length, 1), index)

\* the "Update hash table" loop of pack: range(input_index - match_length, input_index),
\* with input_index already advanced and match_length as find_longest_match returned it
UpdateHashTable(table, inp, index, match_length) ==
    RegisterRange(table, inp, index - match_length, index)

\* the payload bytes pack appends for a match
MatchToken(match_length, match_offset) ==
    IF match_length <= 5 /\ match_offset <= 256
    THEN <<BitOr(match_offset - 1, (match_length - 2) * 64) % 256>>
    ELSE LET encoded_offset == match_offset - 1 IN
         IF match_length <= 9
         THEN <<BitOr(128, encoded_offset \div 32),
                BitOr(encoded_offset % 32, (match_length - 2) * 32)>>
         ELSE <<BitOr(192, encoded_offset \div 256), encoded_offset % 256, match_length - 1>>

(***************************************************************************)
(* PRS: PrsReader                                                          *)
(***************************************************************************)
\* PrsReader.length_table
length_table(i) == IF i < 254 THEN i + 3 ELSE IF i = 254 THEN 1024 ELSE 4096

\* f.read(1)[0] at position pos; -1 stands for the IndexError that indexing the
\* empty read at end of file raises
ReadByte(f, pos) == IF pos < Len(f) THEN f[pos + 1] ELSE -1

\* out[a:b] = data of a bytearray: the slice (clipped to the buffer) is replaced by
\* data, whatever its length
SliceAssign(out, a, b, data) ==
    Slice(out, 0, a) \o data \o Slice(out, Min(b, Len(out)), Len(out))

\* a variant of the copy that takes the bytes from the buffer as it was before
CopyBackFromSnapshot(out, dst, shift, length, i) ==
    [k \in 1 .. Len(out) |->
        IF k > dst /\ k <= dst + length THEN out[k - shift] ELSE out[k]]

\* for i in range(length): output[dst + i] = output[dst - shift + i]
RECURSIVE CopyBack(_, _, _, _, _)
CopyBack(out, dst, shift, length, i) ==
    IF i >= length THEN out
    ELSE CopyBack([out EXCEPT ![dst + i + 1] = out[dst - shift + i + 1]],
                  dst, shift, length, i + 1)

\* unpack from "shift += 1" to the end of the loop body
BackRef(r, shift0, length0) ==
    LET shift == shift0 + 1 IN
    IF r.dst < shift THEN [r EXCEPT !.st = "ValueError"]
    ELSE LET length == Min(length0, Len(r.output) - r.dst) IN
         [r EXCEPT !.output = CopyBack(r.output, r.dst, shift, length, 0),
                   !.dst = r.dst + length]

\* one byte consumed: the position moves and remaining is decremented
Consumed(r) == [r EXCEPT !.pos = r.pos + 1, !.remaining = r.remaining - 1]

\* unpack from "b = f.read(1)[0]" (the control bit is set)
MatchBranch(f, r) ==
    LET b == ReadByte(f, r.pos)
        r1 == Consumed(r)
    IN
    IF b = -1 THEN [r EXCEPT !.st = "IndexError"]
    ELSE IF BitAnd(b, 128) # 0
    THEN IF r1.remaining <= 0 THEN [r1 EXCEPT !.st = "post"]
         ELSE LET s0 == ReadByte(f, r1.pos)
                  r2 == Consumed(r1)
                  shift == BitOr(s0, BitAnd(b, 63) * 256)
              IN
              IF s0 = -1 THEN [r1 EXCEPT !.st = "IndexError"]
              ELSE IF BitAnd(b, 64) # 0
              THEN IF r2.remaining <= 0 THEN [r2 EXCEPT !.st = "post"]
                   ELSE LET offset == ReadByte(f, r2.pos) IN
                        IF offset = -1 THEN [r2 EXCEPT !.st = "IndexError"]
                        ELSE BackRef(Consumed(r2), shift, length_table(offset))
              ELSE BackRef(r2, shift \div 16, BitAnd(shift, 15) + 3)
    ELSE LET length == b \div 4
             b3 == BitAnd(b, 3)
         IN
         IF b3 = 3
         THEN LET read_data == Slice(f, r1.pos, r1.pos + length + 9) IN
              [r1 EXCEPT !.output = SliceAssign(r1.output, r1.dst, r1.dst + length + 9, read_data),
                         !.dst = r1.dst + Len(read_data),
                         !.remaining = r1.remaining - Len(read_data),
                         !.pos = r1.pos + Len(read_data)]
         ELSE BackRef(r1, length, b3 + 2)

\* the body of the while loop of unpack, once; st says how it ended: "loop" (the
\* loop goes on), "post" (break), or the exception raised
UnpackIter(f, r) ==
    LET bit1 == r.bit \div 2
        c == ReadByte(f, r.pos)
        ra == IF bit1 = 0
              THEN [Consumed(r) EXCEPT !.ctl = c, !.bit = 128]
              ELSE [r EXCEPT !.bit = bit1]
    IN
    IF bit1 = 0 /\ c = -1 THEN [r EXCEPT !.st = "IndexError"]
    ELSE IF ra.remaining <= 0 THEN [ra EXCEPT !.st = "post"]
    ELSE IF BitAnd(ra.ctl, ra.bit) = 0
    THEN LET lit == ReadByte(f, ra.pos) IN
         IF lit = -1 THEN [ra EXCEPT !.st = "IndexError"]
         ELSE [Consumed(ra) EXCEPT !.output = [ra.output EXCEPT ![ra.dst + 1] = lit],
                                   !.dst = ra.dst + 1]
    ELSE MatchBranch(f, ra)

\* PrsReader.is_dummy_alpha_channel on a buffer of at least 4 bytes
is_dummy_alpha_channel(out) ==
    LET alpha == out[4] IN
    /\ alpha # 255
    /\ \A i \in 7 .. (Len(out) - 1) : (i - 7) % 4 = 0 => out[i + 1] = alpha

\* read_prs_meta_data: the PrsMetaData, or the exception raised
read_prs_meta_data(f) ==
    IF Slice(f, 0, 2) # <<89, 66>> THEN [st |-> "ValueError"]
    ELSE IF Len(f) < 4 THEN [st |-> "IndexError"]
    ELSE IF f[4] \notin {3, 4} THEN [st |-> "ValueError"]
    ELSE IF Len(f) < 16 THEN [st |-> "StructError"]
    ELSE [st |-> "ok", width |-> ReadU16(f, 12), height |-> ReadU16(f, 14),
          bpp |-> f[4] * 8, flag |-> f[3], packed_size |-> ReadU32(f, 4)]

\* PrsReader.__init__ followed by the first lines of unpack (seek(0x10) and the
\* locals)
NewReader(md) ==
    [st |-> "loop", width |-> md.width, height |-> md.height, depth |-> md.bpp \div 8,
     flag |-> md.flag, packed_size |-> md.packed_size,
     output |-> Zeros(md.width * md.height * (md.bpp \div 8)),
     format |-> IF md.bpp \div 8 = 4 THEN "RGBA" ELSE "RGB",
     pos |-> 16, remaining |-> md.packed_size, dst |-> 0, bit |-> 0, ctl |-> 0]

\* unpack after the loop: the inverse filter, then the dummy-alpha test
UnpackTail(r) ==
    LET out == IF BitAnd(r.flag, 128) # 0 THEN DeltaDecode(r.output, r.depth) ELSE r.output IN
    IF r.depth = 4 /\ Len(out) < 4 THEN [r EXCEPT !.output = out, !.st = "IndexError"]
    ELSE [r EXCEPT !.output = out, !.st = "done",
                   !.format = IF r.depth = 4 /\ is_dummy_alpha_channel(out)
                              THEN "RGB" ELSE r.format]

(***************************************************************************)
(* PRS: the run bmp -> prs -> bmp (convert_bmp_to_prs, convert_prs_to_bmp) *)
(***************************************************************************)
MaxPixels == 2              \* images of width * height <= MaxPixels
ChannelVals == {0, 255}     \* the channel values images are drawn from

Images ==
    UNION { [width : {w}, height : {h}, mode : {m},
             pixels : [1 .. (w * h) -> [1 .. (IF m = "RGBA" THEN 4 ELSE 3) -> ChannelVals]]] :
            <<w, h, m>> \in { t \in (1 .. MaxPixels) \X (1 .. MaxPixels) \X {"RGB", "RGBA"} :
                              t[1] * t[2] <= MaxPixels } }

\* the 4x1 RGB image whose BGR buffer is 0,0,0, 1,1,1, 2,2,2, 3,3,3
ScenarioImage ==
    [width |-> 4, height |-> 1, mode |-> "RGB",
     pixels |-> [k \in 1 .. 4 |-> <<k - 1, k - 1, k - 1>>]]

Errors == {"IndexError", "ValueError", "StructError"}

PrsVars == <<image, flag, metadata, input, output, hash_table, input_index,
             control, mask, control_buffer, file, rd>>

PrsIdle ==
    /\ image = <<>> /\ flag = 0 /\ metadata = <<>> /\ input = <<>> /\ output = <<>>
    /\ hash_table = <<>> /\ input_index = 0 /\ control = 0 /\ mask = 1
    /\ control_buffer = <<>> /\ file = <<>> /\ rd = <<>>

InitPrs ==
    /\ pc = "image"
    /\ image \in Images \cup {ScenarioImage}
    /\ flag \in {0, 128}
    /\ metadata = <<>> /\ input = <<>> /\ output = <<>>
    /\ hash_table = <<>> /\ input_index = 0 /\ control = 0 /\ mask = 1
    /\ control_buffer = <<>> /\ file = <<>> /\ rd = <<>>
    /\ xs = <<>>
    /\ ArcIdle

\* PrsWriter.__init__
Construct ==
    /\ pc = "image"
    /\ pc' = "writer"
    /\ metadata' = [width |-> image.width, height |-> image.height, bpp |-> BppOf(image),
                    flag |-> flag, packed_size |-> 0]
    /\ input' = IF BitAnd(flag, 128) # 0
                THEN DeltaEncode(ToBGR(image), BppOf(image) \div 8)
                ELSE ToBGR(image)
    /\ output' = <<>>
    /\ hash_table' = <<>>
    /\ UNCHANGED <<image, flag, input_index, control, mask, control_buffer, file, rd, xs>>
    /\ UNCHANGED ArcVars

\* the header pack writes first
Header(md) ==
    <<89, 66>> \o <<md.flag, md.bpp \div 8>> \o Zeros(8) \o U16LE(md.width) \o U16LE(md.height)

\* PrsWriter.pack up to the loop
PackBegin ==
    /\ pc = "writer"
    /\ pc' = "pack"
    /\ output' = output \o Header(metadata)
    /\ input_index' = 0
    /\ control' = 0
    /\ mask' = 1
    /\ control_buffer' = <<>>
    /\ UNCHANGED <<image, flag, metadata, input, hash_table, file, rd, xs>>
    /\ UNCHANGED ArcVars

\* one iteration of the while loop of pack
PackStep ==
    /\ pc = "pack"
    /\ input_index < Len(input)
    /\ LET m == find_longest_match(input, hash_table, input_index)
           match_length == m[1]
           match_offset == m[2]
           literal == match_length < 3
           buf == IF literal THEN Append(control_buffer, input[input_index + 1])
                  ELSE control_buffer \o MatchToken(match_length, match_offset)
           ctl == IF literal THEN control ELSE BitOr(control, mask)
           idx == IF literal THEN input_index + 1 ELSE input_index + match_length
           full == mask * 2 = 256
       IN
       /\ input_index' = idx
       /\ output' = IF full THEN output \o <<ctl>> \o buf ELSE output
       /\ control_buffer' = IF full THEN <<>> ELSE buf
       /\ control' = IF full THEN 0 ELSE ctl
       /\ mask' = IF full THEN 1 ELSE mask * 2
       /\ hash_table' = UpdateHashTable(hash_table, input, idx, match_length)
    /\ UNCHANGED <<pc, image, flag, metadata, input, file, rd, xs>>
    /\ UNCHANGED ArcVars

\* "Write final control byte and buffer if necessary"
FinalFlush(out, ctl, msk, buf) ==
    IF msk # 1 \/ buf # <<>> THEN out \o <<ctl>> \o buf ELSE out

\* a variant that forgets the header in the size
PackedSizeWithHeader(out) == Len(out)

\* "Update packed size in header": tell() is the end of the stream
PackedSize(out) == Len(out) - 16
PatchHeader(out) == WriteAt(out, 4, U32LE(PackedSize(out)))

\* PrsWriter.pack after the loop
PackFinish ==
    /\ pc = "pack"
    /\ input_index >= Len(input)
    /\ pc' = "packed"
    /\ LET out == FinalFlush(output, control, mask, control_buffer) IN
       /\ metadata' = [metadata EXCEPT !.packed_size = PackedSize(out)]
       /\ output' = PatchHeader(out)
    /\ UNCHANGED <<image, flag, input, hash_table, input_index, control, mask,
                   control_buffer, file, rd, xs>>
    /\ UNCHANGED ArcVars

\* PrsWriter.save_to_file
SaveToFile ==
    /\ pc = "packed"
    /\ pc' = "file"
    /\ file' = output
    /\ UNCHANGED <<image, flag, metadata, input, output, hash_table, input_index,
                   control, mask, control_buffer, rd, xs>>
    /\ UNCHANGED ArcVars

\* convert_prs_to_bmp: read_prs_meta_data, PrsReader(...), and unpack up to its loop
OpenReader ==
    /\ pc = "file"
    /\ LET md == read_prs_meta_data(file) IN
       IF md.st = "ok"
       THEN pc' = "unpack" /\ rd' = NewReader(md)
       ELSE pc' = md.st /\ rd' = rd
    /\ UNCHANGED <<image, flag, metadata, input, output, hash_table, input_index,
                   control, mask, control_buffer, file, xs>>
    /\ UNCHANGED ArcVars

\* the test of the while loop of unpack and, when it holds, one iteration
UnpackStep ==
    /\ pc = "unpack"
    /\ LET r == IF rd.remaining > 0 /\ rd.dst < Len(rd.output)
                THEN UnpackIter(file, rd)
                ELSE [rd EXCEPT !.st = "post"]
       IN
       /\ rd' = r
       /\ pc' = IF r.st = "loop" THEN "unpack" ELSE r.st
    /\ UNCHANGED <<image, flag, metadata, input, output, hash_table, input_index,
                   control, mask, control_buffer, file, xs>>
    /\ UNCHANGED ArcVars

\* unpack after its loop
UnpackFinish ==
    /\ pc = "post"
    /\ rd' = UnpackTail(rd)
    /\ pc' = rd'.st
    /\ UNCHANGED <<image, flag, metadata, input, output, hash_table, input_index,
                   control, mask, control_buffer, file, xs>>
    /\ UNCHANGED ArcVars

NextPrs ==
    \/ Construct
    \/ PackBegin
    \/ PackStep
    \/ PackFinish
    \/ SaveToFile
    \/ OpenReader
    \/ UnpackStep
    \/ UnpackFinish

SpecPrs == InitPrs /\ [][NextPrs]_vars

(***************************************************************************)
(* PRS: properties                                                         *)
(***************************************************************************)
Packed == pc \in {"packed", "file", "unpack", "post", "done"}

\* C1: for every BGR(A) buffer P (width, height >= 1, depth 3 or 4) and flag 0x00 or
\* 0x80, PrsWriter.pack followed by PrsReader.unpack on the bytes produced raises
\* nothing and leaves the reader's output buffer equal to P byte for byte.
C1_RoundTrip ==
    /\ pc \notin Errors
    /\ pc = "done" => rd.output = ToBGR(image)

\* an RGBA image of two pixels, filtered (the filter changed the buffer), decoded back
C1_Witness ==
    /\ pc = "done"
    /\ flag = 128
    /\ image.mode = "RGBA"
    /\ Len(rd.output) = 8
    /\ input # ToBGR(image)
    /\ rd.output = ToBGR(image)

\* C2: once pack has completed, the u32 at header offset 4 is the number of bytes
\* that follow the 16-byte header, and the rest of the header is as first written:
\* 'YB', flag, bytes per pixel, zeros at 8..11, width, height.
C2_PackedSize ==
    Packed =>
        /\ Len(output) >= 16
        /\ ReadU32(output, 4) = Len(output) - 16
        /\ metadata.packed_size = Len(output) - 16
        /\ Slice(output, 0, 4) = <<89, 66, flag, BppOf(image) \div 8>>
        /\ Slice(output, 8, 12) = <<0, 0, 0, 0>>
        /\ ReadU16(output, 12) = image.width
        /\ ReadU16(output, 14) = image.height

\* a packed stream whose last group is partial (6 tokens after one full group is
\* impossible here: 8 bytes make one full group; 6 bytes make a partial one)
C2_Witness ==
    /\ pc = "packed"
    /\ Len(input) = 6
    /\ ReadU32(output, 4) = 7

\* C3: the 4x1 RGB buffer 0,0,0, 1,1,1, 2,2,2, 3,3,3 with flag 0x80 round-trips and
\* its packed_size is less than 12.
C3_Scenario ==
    (pc = "done" /\ image = ScenarioImage /\ flag = 128) =>
        /\ rd.output = ToBGR(image)
        /\ metadata.packed_size < 12

(***************************************************************************)
(* The XOR stream of the MgData archives (ExMgData.xor_decrypt,            *)
(* PkMgData.xor_encrypt)                                                   *)
(***************************************************************************)
\* bytes(data[i] ^ key[i % len(key)] for i in range(len(data))); an empty key with
\* data to process divides by zero
xor_decrypt(data, key) ==
    [i \in 1 .. Len(data) |-> BitXor(data[i], key[((i - 1) % Len(key)) + 1])]

\* a variant that restarts the key one byte late
xor_encrypt_shifted(data, key) ==
    [i \in 1 .. Len(data) |-> BitXor(data[i], key[(i % Len(key)) + 1])]

\* bytes([data[i] ^ key[i % len(key)] for i in range(len(data))])
xor_encrypt(data, key) ==
    [i \in 1 .. Len(data) |-> BitXor(data[i], key[((i - 1) % Len(key)) + 1])]

RECURSIVE SeqsUpTo(_, _)
\* the sequences over S of length at most n
SeqsUpTo(S, n) ==
    IF n = 0 THEN {<<>>}
    ELSE SeqsUpTo(S, n - 1) \cup [1 .. n -> S]

MaxXorData == 3             \* data of at most MaxXorData bytes
MaxXorKey == 2              \* keys of at most MaxXorKey bytes
XorVals == {0, 90, 255}     \* the data bytes
XorKeyVals == {1, 143}      \* the key bytes

InitXor ==
    /\ pc = "xor"
    /\ xs \in [b : SeqsUpTo(XorVals, MaxXorData), k : SeqsUpTo(XorKeyVals, MaxXorKey),
               enc : {<<>>}, dec : {<<>>}]
    /\ PrsIdle
    /\ ArcIdle

\* PkMgData.xor_encrypt(b, k)
XorEncrypt ==
    /\ pc = "xor"
    /\ IF Len(xs.k) = 0 /\ Len(xs.b) > 0
       THEN pc' = "ZeroDivisionError" /\ xs' = xs
       ELSE pc' = "encrypted" /\ xs' = [xs EXCEPT !.enc = xor_encrypt(xs.b, xs.k)]
    /\ UNCHANGED PrsVars
    /\ UNCHANGED ArcVars

\* ExMgData.xor_decrypt(enc, k)
XorDecrypt ==
    /\ pc = "encrypted"
    /\ pc' = "decrypted"
    /\ xs' = [xs EXCEPT !.dec = xor_decrypt(xs.enc, xs.k)]
    /\ UNCHANGED PrsVars
    /\ UNCHANGED ArcVars

NextXor ==
    \/ XorEncrypt
    \/ XorDecrypt

SpecXor == InitXor /\ [][NextXor]_vars

\* C4: for every byte string b and non-empty key k, xor_decrypt(xor_encrypt(b, k), k)
\* is b; the result has the length of b and its i-th byte is b[i] XOR k[i mod |k|];
\* the packer's xor_encrypt and the unpacker's xor_decrypt agree.
C4_XorInvolution ==
    /\ pc = "ZeroDivisionError" => Len(xs.k) = 0
    /\ pc \in {"encrypted", "decrypted"} =>
        /\ Len(xs.enc) = Len(xs.b)
        /\ \A i \in 0 .. (Len(xs.b) - 1) :
              xs.enc[i + 1] = BitXor(xs.b[i + 1], xs.k[(i % Len(xs.k)) + 1])
        /\ Len(xs.k) > 0 => xor_decrypt(xs.b, xs.k) = xs.enc
    /\ pc = "decrypted" => xs.dec = xs.b

\* three bytes under a two-byte key: the key wraps, and the cipher text differs
C4_Witness ==
    /\ pc = "decrypted"
    /\ Len(xs.b) = 3
    /\ Len(xs.k) = 2
    /\ xs.k[1] # xs.k[2]
    /\ xs.enc # xs.b
    /\ xs.dec = xs.b

(***************************************************************************)
(* The delta filter on its own                                             *)
(***************************************************************************)
MaxDeltaLen == 7            \* buffers of at most MaxDeltaLen bytes
DeltaVals == {0, 1, 255}    \* the bytes

InitDelta ==
    /\ pc = "delta"
    /\ xs \in [b : SeqsUpTo(DeltaVals, MaxDeltaLen), s : {3, 4}, enc : {<<>>}, dec : {<<>>}]
    /\ PrsIdle
    /\ ArcIdle

\* the filter loop of PrsWriter.__init__ with depth = s
DeltaEncodePass ==
    /\ pc = "delta"
    /\ pc' = "filtered"
    /\ xs' = [xs EXCEPT !.enc = DeltaEncode(xs.b, xs.s)]
    /\ UNCHANGED PrsVars
    /\ UNCHANGED ArcVars

\* the filter loop of PrsReader.unpack with depth = s
DeltaDecodePass ==
    /\ pc = "filtered"
    /\ pc' = "unfiltered"
    /\ xs' = [xs EXCEPT !.dec = DeltaDecode(xs.enc, xs.s)]
    /\ UNCHANGED PrsVars
    /\ UNCHANGED ArcVars

NextDelta ==
    \/ DeltaEncodePass
    \/ DeltaDecodePass

SpecDelta == InitDelta /\ [][NextDelta]_vars

\* C5: for every buffer b and stride s in {3, 4}, the decoder's inverse filter undoes
\* the encoder's filter, and neither pass touches the first s bytes.
C5_DeltaRoundTrip ==
    /\ pc \in {"filtered", "unfiltered"} =>
        /\ Len(xs.enc) = Len(xs.b)
        /\ Slice(xs.enc, 0, xs.s) = Slice(xs.b, 0, xs.s)
        /\ \A i \in xs.s .. (Len(xs.b) - 1) :
              xs.enc[i + 1] = (xs.b[i + 1] - xs.b[i - xs.s + 1]) % 256
    /\ pc = "unfiltered" =>
        /\ xs.dec = xs.b
        /\ Slice(xs.dec, 0, xs.s) = Slice(xs.enc, 0, xs.s)

\* a buffer of more than two strides (byte 6 depends on byte 3, which depends on
\* byte 0) that the filter changed, with a wrap-around
C5_Witness ==
    /\ pc = "unfiltered"
    /\ xs.s = 3
    /\ Len(xs.b) = 7
    /\ xs.enc[4] # xs.b[4]
    /\ xs.enc[7] # xs.b[7]
    /\ xs.b[7] < xs.b[4]
    /\ xs.dec = xs.b

(***************************************************************************)
(* cp932 and hexadecimal text                                              *)
(***************************************************************************)
\* KEY = '...1968'.encode('cp932') of ExMgData.py
KEY == <<143, 151, 139, 179, 142, 116, 130, 228, 130, 164, 130, 177, 49, 57, 54, 56>>

\* The double-byte characters the model decodes: <<lead, trail, code point>>.  The
\* six of KEY, and 0x81 0x61.  Archives are drawn so that no other pair with a
\* trail byte in the legal range is read as a name (Cp932Decode marks one with -2).
Cp932Pairs ==
    { <<143, 151, 22899>>, <<139, 179, 25945>>, <<142, 116, 24107>>,
      <<130, 228, 12422>>, <<130, 164, 12358>>, <<130, 177, 12371>>,
      <<129, 97, 8741>> }

Cp932Lead(b) == b \in (129 .. 159) \cup (224 .. 252)
Cp932Trail(b) == b \in (64 .. 126) \cup (128 .. 252)

\* the single bytes of Python's cp932: ASCII and 0x80 unchanged, 0xa1..0xdf the
\* half-width katakana, 0xa0 and 0xfd..0xff private-use characters
Cp932Single(b) ==
    IF b <= 128 THEN b
    ELSE IF b = 160 THEN 63728
    ELSE IF b <= 223 THEN 65377 + (b - 161)
    ELSE 63729 + (b - 253)

\* bytes.decode('cp932') from the i-th byte on: the code points, with -1 where the
\* codec raises UnicodeDecodeError (a lead byte at the end or before an illegal
\* trail byte)
RECURSIVE Cp932DecodeFrom(_, _)
Cp932DecodeFrom(bs, i) ==
    IF i > Len(bs) THEN <<>>
    ELSE IF ~Cp932Lead(bs[i]) THEN <<Cp932Single(bs[i])>> \o Cp932DecodeFrom(bs, i + 1)
    ELSE IF i = Len(bs) THEN <<-1>>
    ELSE IF ~Cp932Trail(bs[i + 1]) THEN <<-1>>
    ELSE LET hit == { t \in Cp932Pairs : t[1] = bs[i] /\ t[2] = bs[i + 1] } IN
         IF hit = {} THEN <<-2>>
         ELSE <<(CHOOSE t \in hit : TRUE)[3]>> \o Cp932DecodeFrom(bs, i + 2)

Cp932Decode(bs) == Cp932DecodeFrom(bs, 1)
DecodeOk(cps) == \A i \in 1 .. Len(cps) : cps[i] >= 0

\* str.encode('cp932') of text that Cp932Decode produced
RECURSIVE Cp932Encode(_)
Cp932Encode(cps) ==
    IF cps = <<>> THEN <<>>
    ELSE LET c == Head(cps)
             hit == { t \in Cp932Pairs : t[3] = c }
             one == IF c <= 128 THEN <<c>>
                    ELSE IF hit # {} THEN LET t == CHOOSE t \in hit : TRUE IN <<t[1], t[2]>>
                    ELSE IF c = 63728 THEN <<160>>
                    ELSE IF c >= 65377 THEN <<161 + (c - 65377)>>
                    ELSE <<253 + (c - 63729)>>
         IN one \o Cp932Encode(Tail(cps))

\* name_bytes.split(b'\x00', 1)[0]
RECURSIVE UpToNul(_)
UpToNul(bs) ==
    IF bs = <<>> \/ Head(bs) = 0 THEN <<>> ELSE <<Head(bs)>> \o UpToNul(Tail(bs))

HexDigits == <<"0", "1", "2", "3", "4", "5", "6", "7", "8", "9", "a", "b", "c", "d", "e", "f">>

\* ''.join(f"{byte:02x}" for byte in bs): two digits per byte, high nibble first
ToHex(bs) ==
    [i \in 1 .. (2 * Len(bs)) |->
        LET b == bs[(i + 1) \div 2] IN
        IF i % 2 = 1 THEN HexDigits[(b \div 16) + 1] ELSE HexDigits[(b % 16) + 1]]

HexVal(c) == (CHOOSE k \in 1 .. 16 : HexDigits[k] = c) - 1

\* PkMgData.hex_to_bytes on a digit string of even length
hex_to_bytes(hs) ==
    [i \in 1 .. (Len(hs) \div 2) |-> 16 * HexVal(hs[2 * i - 1]) + HexVal(hs[2 * i])]

(***************************************************************************)
(* MgData: ExMgData.process_mbl                                            *)
(***************************************************************************)
\* parameter_sets of process_mbl
parameter_sets ==
    << [entry_size |-> 64, name_offset |-> 0, file_offset |-> 56, size_offset |-> 60, key |-> KEY],
       [entry_size |-> 24, name_offset |-> 0, file_offset |-> 16, size_offset |-> 20, key |-> KEY] >>

\* unpack_uint32; -1 stands for the struct.error that unpacking a short read raises
unpack_uint32(f, offset) == IF offset + 4 <= Len(f) THEN ReadU32(f, offset) ELSE -1

\* read_entry: st is "None" for the (None, 0, 0) of a name that does not decode
read_entry(f, base_offset, p) ==
    LET name_bytes == Slice(f, base_offset + p.name_offset, base_offset + p.name_offset + 32)
        name == Cp932Decode(UpToNul(name_bytes))
        offset == unpack_uint32(f, base_offset + p.file_offset)
        size == unpack_uint32(f, base_offset + p.size_offset)
    IN
    IF ~DecodeOk(name) THEN [st |-> "None"]
    ELSE IF offset = -1 \/ size = -1 THEN [st |-> "StructError"]
    ELSE [st |-> "ok", name |-> name, offset |-> offset, size |-> size]

\* the inner loop of process_mbl, for i in range(count), from entry i on
RECURSIVE ReadEntries(_, _, _, _, _)
ReadEntries(f, count, p, i, entries) ==
    IF i >= count THEN [st |-> "ok", entries |-> entries]
    ELSE LET entry == read_entry(f, 4 + i * p.entry_size, p) IN
         IF entry.st = "None" THEN [st |-> "fail"]
         ELSE IF entry.st = "StructError" THEN [st |-> "StructError"]
         ELSE ReadEntries(f, count, p, i + 1, Append(entries, entry))

\* the loop of process_mbl over parameter_sets, from the k-th set on: the first
\* set under which every name decodes wins
RECURSIVE TryParameterSets(_, _, _)
TryParameterSets(f, count, k) ==
    IF k > Len(parameter_sets) THEN [st |-> "unrecognized"]
    ELSE LET r == ReadEntries(f, count, parameter_sets[k], 0, <<>>) IN
         IF r.st = "ok" THEN [st |-> "ok", params |-> parameter_sets[k], entries |-> r.entries]
         ELSE IF r.st = "StructError" THEN [st |-> "StructError"]
         ELSE TryParameterSets(f, count, k + 1)

\* process_mbl up to "if not successful_params"
ReadIndex(f) ==
    LET count == unpack_uint32(f, 0) IN
    IF count = -1 THEN [st |-> "StructError"] ELSE TryParameterSets(f, count, 1)

\* open(path, 'wb').write(data) in a directory d
WriteFile(d, name, data) ==
    [n \in DOMAIN d \cup {name} |-> IF n = name THEN data ELSE d[n]]

\* data_entries[name] = value of a dict kept as the list of its items: a key that is
\* present keeps its place and takes the new value
DictSet(items, name, value) ==
    IF \E k \in 1 .. Len(items) : items[k].name = name
    THEN [k \in 1 .. Len(items) |->
             IF items[k].name = name THEN [name |-> name, hex |-> value] ELSE items[k]]
    ELSE Append(items, [name |-> name, hex |-> value])

\* file.seek(offset); file.read(size): what is there, up to size bytes
ReadAt(f, offset, size) ==
    IF offset >= Len(f) THEN <<>> ELSE Slice(f, offset, offset + Min(size, Len(f) - offset))

\* the data save_file writes for an entry
EntryData(f, entry, key) == xor_decrypt(ReadAt(f, entry.offset, entry.size), key)

\* the extraction loop of process_mbl from entry i on; opening the directory itself
\* (an empty name) raises IsADirectoryError and ends the run where it stands
RECURSIVE ExtractFrom(_, _, _, _, _, _)
ExtractFrom(f, params, entries, i, d, data_entries) ==
    IF i >= Len(entries) THEN [st |-> "unpacked", dir |-> d, data_entries |-> data_entries]
    ELSE LET entry == entries[i + 1]
             additional_bytes == Slice(f, 4 + i * params.entry_size,
                                       4 + i * params.entry_size + params.entry_size)
         IN
         IF entry.name = <<>>
         THEN [st |-> "IsADirectoryError", dir |-> d, data_entries |-> data_entries]
         ELSE ExtractFrom(f, params, entries, i + 1,
                          WriteFile(d, entry.name, EntryData(f, entry, params.key)),
                          DictSet(data_entries, entry.name, ToHex(additional_bytes)))

\* process_mbl: how it ends, the directory and entries.json it leaves
process_mbl(f) ==
    LET idx == ReadIndex(f) IN
    IF idx.st # "ok" THEN [st |-> idx.st, dir |-> <<>>, json |-> <<>>]
    ELSE LET x == ExtractFrom(f, idx.params, idx.entries, 0, <<>>, <<>>) IN
         IF x.st # "unpacked" THEN [st |-> x.st, dir |-> x.dir, json |-> <<>>]
         ELSE [st |-> "unpacked", dir |-> x.dir,
               json |-> [parameters |->
                            [entry_size |-> idx.params.entry_size,
                             name_offset |-> idx.params.name_offset,
                             file_offset |-> idx.params.file_offset,
                             size_offset |-> idx.params.size_offset,
                             key |-> Cp932Decode(idx.params.key)],
                         entries |-> x.data_entries]]

(***************************************************************************)
(* MgData: PkMgData.pack_files                                             *)
(***************************************************************************)
\* patch.lower() for the arguments the model passes
Lower(str) == IF str \in {"YES", "Yes"} THEN "yes" ELSE str

\* a variant of the record write that writes the name after the sidecar bytes
WriteRecordNameLast(arc, entry_start, name_encoded, hex_data, pt, P, current_offset, file_size) ==
    LET a1 == IF Lower(pt) # "yes"
              THEN WriteAt(arc, entry_start, Slice(hex_to_bytes(hex_data), 0, P.entry_size))
              ELSE arc
        a2 == WriteAt(a1, entry_start,
                      name_encoded \o Zeros(Max(0, P.name_offset + P.entry_size - Len(name_encoded))))
        a3 == WriteAt(a2, entry_start + P.file_offset, U32LE(current_offset))
    IN  WriteAt(a3, entry_start + P.size_offset, U32LE(file_size))

\* the body of the header loop of pack_files for one entry: the name and its zero
\* padding, the sidecar record unless in patch mode, then the offset and the size
WriteRecord(arc, entry_start, name_encoded, hex_data, pt, P, current_offset, file_size) ==
    LET a1 == WriteAt(arc, entry_start,
                      name_encoded \o Zeros(Max(0, P.name_offset + P.entry_size - Len(name_encoded))))
        a2 == IF Lower(pt) # "yes"
              THEN WriteAt(a1, entry_start, Slice(hex_to_bytes(hex_data), 0, P.entry_size))
              ELSE a1
        a3 == WriteAt(a2, entry_start + P.file_offset, U32LE(current_offset))
    IN  WriteAt(a3, entry_start + P.size_offset, U32LE(file_size))

\* available_files: the sidecar entries whose file is in the directory, in order
AvailableFiles(d, js) == SelectSeq(js.entries, LAMBDA e : e.name \in DOMAIN d)

\* the header loop of pack_files from the i-th available file on
RECURSIVE WriteRecords(_, _, _, _, _, _, _)
WriteRecords(arc, d, avail, P, pt, i, current_offset) ==
    IF i >= Len(avail) THEN arc
    ELSE LET e == avail[i + 1]
             encrypted_data == xor_encrypt(d[e.name], Cp932Encode(P.key))
             file_size == Len(encrypted_data)
         IN WriteRecords(WriteRecord(arc, 4 + i * P.entry_size, Cp932Encode(e.name), e.hex,
                                     pt, P, current_offset, file_size),
                         d, avail, P, pt, i + 1, current_offset + file_size)

\* the data loop of pack_files: the encrypted files one after the other
RECURSIVE EncryptedData(_, _, _, _)
EncryptedData(d, avail, key, i) ==
    IF i > Len(avail) THEN <<>>
    ELSE xor_encrypt(d[avail[i].name], key) \o EncryptedData(d, avail, key, i + 1)

\* pack_files: the archive written
pack_files(d, js, pt) ==
    LET P == js.parameters
        avail == AvailableFiles(d, js)
        file_count == Len(avail)
        header_size == 4 + file_count * P.entry_size
        a0 == U32LE(file_count)
        a1 == WriteRecords(a0, d, avail, P, pt, 0, header_size + 4)
        a2 == WriteAt(a1, header_size, <<0, 0, 0, 0>>)
    IN  WriteAt(a2, header_size + 4, EncryptedData(d, avail, Cp932Encode(P.key), 1))

(***************************************************************************)
(* MgData: the run unpack -> (a file removed) -> repack                    *)
(***************************************************************************)
MaxEntries == 2             \* archives of at most MaxEntries entries

\* the name bytes archives are drawn from: "a", "b", the empty name, and a lone
\* cp932 lead byte, which does not decode
NameBytes == { <<97>>, <<98>>, <<>>, <<129>> }

\* the stored (encrypted) payloads archives are drawn from: four letters; twelve letters and a lead byte before a NUL, so that it covers offset
\* 68 of a two-entry archive of 0x18 records with an undecodable name; 76 letters,
\* so that the same archive reads as two whole records of 0x40 bytes
StoredPayloads ==
    { <<81, 34, 49, 96>>,
      [i \in 1 .. 14 |-> IF i <= 12 THEN 97 ELSE IF i = 13 THEN 129 ELSE 0],
      [i \in 1 .. 76 |-> 97] }

OpaqueVals == {0, 7}        \* the byte that fills a record between name and offset

\* one index record of the layout p: the name, its NUL, the fill byte up to the
\* offset field, the offset and the size
MkRecord(p, name, fill, offset, size) ==
    [k \in 1 .. p.entry_size |->
        IF k <= Len(name) THEN name[k]
        ELSE IF k = Len(name) + 1 THEN 0
        ELSE IF k <= p.file_offset THEN fill
        ELSE IF k <= p.file_offset + 4 THEN U32LE(offset)[k - p.file_offset]
        ELSE U32LE(size)[k - p.size_offset]]

RECURSIVE SumLen(_, _)
SumLen(ents, n) == IF n = 0 THEN 0 ELSE SumLen(ents, n - 1) + Len(ents[n].payload)

RECURSIVE Concat(_)
Concat(ss) == IF ss = <<>> THEN <<>> ELSE Head(ss) \o Concat(Tail(ss))

\* an archive of the layout p: u32 count, the records, four zero bytes, the payloads
MkArchive(p, ents, fill) ==
    LET data_start == 4 + Len(ents) * p.entry_size + 4 IN
    U32LE(Len(ents))
    \o Concat([i \in 1 .. Len(ents) |->
                  MkRecord(p, ents[i].name, fill, data_start + SumLen(ents, i - 1),
                           Len(ents[i].payload))])
    \o <<0, 0, 0, 0>>
    \o Concat([i \in 1 .. Len(ents) |-> ents[i].payload])

Archives ==
    { MkArchive(parameter_sets[k], ents, fill) :
        k \in 1 .. 2,
        ents \in SeqsUpTo([name : NameBytes, payload : StoredPayloads], MaxEntries),
        fill \in OpaqueVals }

InitMgData ==
    /\ pc = "mbl"
    /\ mbl \in Archives
    /\ dir = <<>> /\ json = <<>> /\ patch = "" /\ packed = <<>>
    /\ GraIdle
    /\ xs = <<>>
    /\ PrsIdle

\* ExMgData.process_mbl(mbl, dir)
ProcessMbl ==
    /\ pc = "mbl"
    /\ LET r == process_mbl(mbl) IN
       /\ pc' = r.st
       /\ dir' = r.dir
       /\ json' = r.json
    /\ UNCHANGED <<mbl, patch, packed, xs>>
    /\ UNCHANGED GraVars
    /\ UNCHANGED PrsVars

\* the user deletes one extracted file before repacking
RemoveFile ==
    /\ pc = "unpacked"
    /\ pc' = "edited"
    /\ \E gone \in DOMAIN dir : dir' = [n \in DOMAIN dir \ {gone} |-> dir[n]]
    /\ UNCHANGED <<mbl, json, patch, packed, xs>>
    /\ UNCHANGED GraVars
    /\ UNCHANGED PrsVars

\* PkMgData.pack_files(dir, packed, entries.json, patch)
PackFiles ==
    /\ pc \in {"unpacked", "edited"}
    /\ pc' = "repacked"
    /\ \E pt \in {"yes", "no", "YES"} :
          /\ patch' = pt
          /\ packed' = pack_files(dir, json, pt)
    /\ UNCHANGED <<mbl, dir, json, xs>>
    /\ UNCHANGED GraVars
    /\ UNCHANGED PrsVars

NextMgData ==
    \/ ProcessMbl
    \/ RemoveFile
    \/ PackFiles

SpecMgData == InitMgData /\ [][NextMgData]_vars

(***************************************************************************)
(* MgData: properties                                                      *)
(***************************************************************************)
\* record i (from 0) of a packed archive under the layout P
RecordOf(arc, P, i) == Slice(arc, 4 + i * P.entry_size, 4 + i * P.entry_size + P.entry_size)

\* the bytes a record of arc points to, decrypted: its u32 size bytes at its u32
\* offset, if they are all inside arc
PointedPayload(arc, P, i) ==
    LET offset == ReadU32(arc, 4 + i * P.entry_size + P.file_offset)
        size == ReadU32(arc, 4 + i * P.entry_size + P.size_offset)
    IN  IF offset + size <= Len(arc)
        THEN [ok |-> TRUE, data |-> xor_decrypt(Slice(arc, offset, offset + size), KEY)]
        ELSE [ok |-> FALSE, data |-> <<>>]

\* every entry of the original index has a record in the repacked archive that
\* points to its payload
EveryPayloadKept ==
    LET idx == ReadIndex(mbl)
        P == json.parameters
    IN  \A n \in 1 .. Len(idx.entries) :
            \E j \in 0 .. (ReadU32(packed, 0) - 1) :
                LET r == PointedPayload(packed, P, j) IN
                r.ok /\ r.data = EntryData(mbl, idx.entries[n], KEY)

\* the run unpacked the archive and repacked the untouched directory with patch 'no'
RepackedUntouched ==
    /\ pc = "repacked"
    /\ patch = "no"
    /\ dir = process_mbl(mbl).dir

\* C6: for every MgData archive that process_mbl unpacks, pack_files on the
\* extracted directory with the produced entries.json and patch 'no' yields an
\* archive that has, for every entry of the original archive, a record whose u32
\* offset and u32 size point to bytes that, XORed with the key, are that entry's
\* decrypted payload.
C6_RoundTrip == RepackedUntouched => EveryPayloadKept

\* the names of the original index are pairwise different
DistinctNames ==
    LET es == ReadIndex(mbl).entries IN
    \A a, b \in 1 .. Len(es) : es[a].name = es[b].name => a = b

\* the positions of a record outside its offset field and its size field
OpaquePositions(P) ==
    { k \in 0 .. (P.entry_size - 1) :
        /\ k \notin P.file_offset .. (P.file_offset + 3)
        /\ k \notin P.size_offset .. (P.size_offset + 3) }

\* the sizes of the files of the first n available entries, summed
RECURSIVE SizesBefore(_, _)
SizesBefore(avail, n) ==
    IF n = 0 THEN 0 ELSE SizesBefore(avail, n - 1) + Len(dir[avail[n].name])

\* what pack_files leaves in the index: one record per available file, equal to
\* its sidecar record outside the two fields, the fields recomputed
SidecarPreserved ==
    LET P == json.parameters
        avail == AvailableFiles(dir, json)
    IN  /\ ReadU32(packed, 0) = Len(avail)
        /\ \A i \in 0 .. (Len(avail) - 1) :
              LET rec == RecordOf(packed, P, i)
                  side == hex_to_bytes(avail[i + 1].hex)
              IN  /\ Len(rec) = P.entry_size
                  /\ \A k \in OpaquePositions(P) : rec[k + 1] = side[k + 1]
                  /\ ReadU32(rec, P.file_offset)
                        = 4 + Len(avail) * P.entry_size + 4 + SizesBefore(avail, i)
                  /\ ReadU32(rec, P.size_offset) = Len(dir[avail[i + 1].name])

\* C7 as stated: in pack_files with patch != 'yes', every byte of each written
\* index record outside the 4-byte offset field and the 4-byte size field equals
\* the byte at the same position of the entry's sidecar record.
C7_OpaquePreservedLiteral == (pc = "repacked" /\ patch # "yes") => SidecarPreserved

\* C7 amended: in pack_files with patch.lower() != 'yes', every byte of each written
\* index record outside the offset field and the size field equals the byte at the
\* same position of the entry's sidecar record, and the two fields are recomputed.
C7_OpaquePreserved == (pc = "repacked" /\ Lower(patch) # "yes") => SidecarPreserved

\* a repack with patch 'no' after a file was removed: the record of the file that
\* is left carries the opaque byte 7 of its sidecar record and a new offset
C7_Witness ==
    /\ pc = "repacked"
    /\ patch = "no"
    /\ LET P == json.parameters
           avail == AvailableFiles(dir, json)
       IN  /\ Len(json.entries) = 2
           /\ Len(avail) = 1
           /\ avail[1] = json.entries[2]
           /\ RecordOf(packed, P, 0)[3] = 7
           /\ ReadU32(RecordOf(packed, P, 0), P.file_offset)
                 # ReadU32(hex_to_bytes(avail[1].hex), P.file_offset)

\* the index of f is laid out with the 0x18 preset: count >= 1 records of 0x18
\* bytes from offset 4, each with a name that decodes and is not empty, and an
\* offset and a size that lie in the data area of f
WellFormed18(f) ==
    LET P == parameter_sets[2]
        count == unpack_uint32(f, 0)
        data_start == 4 + count * P.entry_size + 4
    IN  /\ count >= 1
        /\ data_start <= Len(f)
        /\ LET r == ReadEntries(f, count, P, 0, <<>>) IN
           /\ r.st = "ok"
           /\ \A n \in 1 .. count :
                 /\ r.entries[n].name # <<>>
                 /\ r.entries[n].offset >= data_start
                 /\ r.entries[n].offset + r.entries[n].size <= Len(f)

\* what process_mbl extracts when it reads f with the 0x18 preset
ExtractedWith18(f) ==
    LET P == parameter_sets[2]
        r == ReadEntries(f, unpack_uint32(f, 0), P, 0, <<>>)
    IN  ExtractFrom(f, P, r.entries, 0, <<>>, <<>>).dir

\* C8: for every archive whose index is laid out with the 0x18 preset, count = 1
\* included, process_mbl rejects the 0x40 preset without raising and extracts the
\* entries using the record positions of the 0x18 preset.
C8_Fallback ==
    (WellFormed18(mbl) /\ pc # "mbl") =>
        /\ pc \in {"unpacked", "edited", "repacked"}
        /\ json.parameters.entry_size = 24
        /\ pc = "unpacked" => dir = ExtractedWith18(mbl)

(***************************************************************************)
(* UTF-8, letter case, paths, zlib                                         *)
(***************************************************************************)
\* bytes.decode('utf-8') from the i-th byte on: the code points of the one-byte
\* and the U+0080..U+00FF two-byte sequences, -1 where the codec raises
\* UnicodeDecodeError; -2 marks a longer or higher sequence, which the archives
\* of the model do not hold
RECURSIVE Utf8DecodeFrom(_, _)
Utf8DecodeFrom(bs, i) ==
    IF i > Len(bs) THEN <<>>
    ELSE LET b == bs[i] IN
         IF b < 128 THEN <<b>> \o Utf8DecodeFrom(bs, i + 1)
         ELSE IF b < 194 \/ b > 244 THEN <<-1>>
         ELSE IF i = Len(bs) \/ bs[i + 1] < 128 \/ bs[i + 1] > 191 THEN <<-1>>
         ELSE IF b > 195 THEN <<-2>>
         ELSE <<(b - 192) * 64 + (bs[i + 1] - 128)>> \o Utf8DecodeFrom(bs, i + 2)

\* str.encode('utf-8') for code points below U+0800
RECURSIVE Utf8Encode(_)
Utf8Encode(cps) ==
    IF cps = <<>> THEN <<>>
    ELSE LET c == Head(cps) IN
         (IF c < 128 THEN <<c>> ELSE <<192 + (c \div 64), 128 + (c % 64)>>)
         \o Utf8Encode(Tail(cps))

\* str.lower() of text below U+0100
StrLower(cps) ==
    [i \in 1 .. Len(cps) |->
        IF cps[i] \in 65 .. 90 \/ (cps[i] \in 192 .. 222 /\ cps[i] # 215)
        THEN cps[i] + 32 ELSE cps[i]]

\* str.upper() of text below U+0100: sharp s becomes SS, micro sign and y with
\* diaeresis leave Latin-1
RECURSIVE StrUpper(_)
StrUpper(cps) ==
    IF cps = <<>> THEN <<>>
    ELSE LET c == Head(cps) IN
         (IF c \in 97 .. 122 \/ (c \in 224 .. 254 /\ c # 247) THEN <<c - 32>>
          ELSE IF c = 223 THEN <<83, 83>>
          ELSE IF c = 181 THEN <<924>>
          ELSE IF c = 255 THEN <<376>>
          ELSE <<c>>)
         \o StrUpper(Tail(cps))

\* os.path.basename: what follows the last '/'
RECURSIVE Basename(_)
Basename(path) ==
    IF \E i \in 1 .. Len(path) : path[i] = 47
    THEN Basename(Tail(path)) ELSE path

\* os.path.splitext(name)[0]: name up to its last '.', unless only dots precede it
SplitextRoot(name) ==
    LET dots == { i \in 1 .. Len(name) :
                    name[i] = 46 /\ \E j \in 1 .. (i - 1) : name[j] # 46 }
    IN  IF dots = {} THEN name
        ELSE SubSeq(name, 1, (CHOOSE i \in dots : \A j \in dots : j <= i) - 1)

\* the two running sums of Adler-32 over data, from <<1, 0>>
RECURSIVE Adler32(_)
Adler32(data) ==
    IF data = <<>> THEN <<1, 0>>
    ELSE LET prev == Adler32(SubSeq(data, 1, Len(data) - 1))
             a == (prev[1] + data[Len(data)]) % 65521
         IN  <<a, (prev[2] + a) % 65521>>

\* the deflate blocks of a zlib stream from 0-based position i on, for stored
\* blocks: the data and where the blocks end; ok is FALSE where zlib raises an
\* error (truncated stream, bad length check, reserved block type)
RECURSIVE InflateStored(_, _, _)
InflateStored(bs, i, acc) ==
    IF i + 1 > Len(bs) THEN [ok |-> FALSE]
    ELSE LET head == bs[i + 1] % 8 IN
         IF head \div 2 = 3 THEN [ok |-> FALSE]
         ELSE IF head \div 2 # 0 THEN [ok |-> TRUE, modelled |-> FALSE]
         ELSE IF i + 5 > Len(bs) THEN [ok |-> FALSE]
         ELSE LET n == ReadU16(bs, i + 1) IN
              IF ReadU16(bs, i + 3) # 65535 - n \/ i + 5 + n > Len(bs) THEN [ok |-> FALSE]
              ELSE IF head % 2 = 1
                   THEN [ok |-> TRUE, modelled |-> TRUE,
                         data |-> acc \o Slice(bs, i + 5, i + 5 + n), end |-> i + 5 + n]
                   ELSE InflateStored(bs, i + 5 + n, acc \o Slice(bs, i + 5, i + 5 + n))

\* zlib.decompress(bs): ok is FALSE for zlib.error (bad header, truncated stream,
\* bad Adler-32); bytes after the checksum are ignored
zlib_decompress(bs) ==
    IF Len(bs) < 2 THEN [ok |-> FALSE]
    ELSE IF bs[1] % 16 # 8 \/ bs[1] \div 16 > 7 \/ (bs[1] * 256 + bs[2]) % 31 # 0
            \/ (bs[2] \div 32) % 2 = 1
    THEN [ok |-> FALSE]
    ELSE LET r == InflateStored(bs, 2, <<>>) IN
         IF ~r.ok \/ ~r.modelled THEN r
         ELSE IF r.end + 4 > Len(bs) THEN [ok |-> FALSE]
         ELSE LET sum == Adler32(r.data) IN
              IF /\ bs[r.end + 1] * 256 + bs[r.end + 2] = sum[2]
                 /\ bs[r.end + 3] * 256 + bs[r.end + 4] = sum[1]
              THEN [ok |-> TRUE, modelled |-> TRUE, data |-> r.data]
              ELSE [ok |-> FALSE]

(***************************************************************************)
(* MgGra: ExmgGra.try_open_gra_mbl, extract_mbl                            *)
(***************************************************************************)
\* read_string(file, length) with the file at position pos: the lowered name;
\* <<-1>> stands for the UnicodeDecodeError of bytes that are not UTF-8
read_string(f, pos, length) ==
    LET name == Utf8DecodeFrom(UpToNul(Slice(f, pos, pos + length)), 1) IN
    IF \E i \in 1 .. Len(name) : name[i] < 0 THEN <<-1>> ELSE StrLower(name)

\* is_sane_count
is_sane_count(count) == 0 < count /\ count < 10000

\* a variant of the placement check that looks at the offset alone
check_placement_offset_only(entry, max_offset) == entry.offset <= max_offset

\* Entry.check_placement: offset + size <= max_offset
check_placement(entry, max_offset) ==
    entry.offset <= max_offset /\ entry.size <= max_offset - entry.offset

PrsSuffix == <<46, 112, 114, 115>>               \* ".prs"
MgGraName == <<109, 103, 95, 103, 114, 97>>      \* "mg_gra"

\* the index loop of try_open_gra_mbl from entry i on.  A short read of the name
\* leaves the file at its end, so the read of the offset and the size that follows
\* is short as well and struct.unpack raises
RECURSIVE ReadGraEntries(_, _, _, _, _)
ReadGraEntries(f, count, filename_len, i, entries) ==
    IF i >= count THEN [st |-> "ok", entries |-> entries]
    ELSE LET index_offset == 8 + i * (filename_len + 8)
             name == read_string(f, index_offset, filename_len)
         IN
         IF name = <<-1>> THEN [st |-> "UnicodeDecodeError", entries |-> <<>>]
         ELSE IF index_offset + filename_len + 8 > Len(f)
         THEN [st |-> "StructError", entries |-> <<>>]
         ELSE LET entry == [name |-> name \o PrsSuffix,
                            offset |-> ReadU32(f, index_offset + filename_len),
                            size |-> ReadU32(f, index_offset + filename_len + 4)]
              IN  IF ~check_placement(entry, Len(f)) THEN [st |-> "None", entries |-> <<>>]
                  ELSE ReadGraEntries(f, count, filename_len, i + 1, Append(entries, entry))

\* try_open_gra_mbl(path) for a file f at path: st is "arc" with the entries of the
\* ArcFile returned, "None", or the exception raised
try_open_gra_mbl(path, f) ==
    IF Len(f) < 8 THEN [st |-> "StructError", entries |-> <<>>]
    ELSE LET count == ReadU32(f, 0)
             filename_len == ReadU32(f, 4)
         IN
         IF filename_len < 8 \/ filename_len > 64 \/ ~is_sane_count(count)
         THEN [st |-> "None", entries |-> <<>>]
         ELSE IF StrLower(SplitextRoot(Basename(path))) # MgGraName
         THEN [st |-> "None", entries |-> <<>>]
         ELSE LET r == ReadGraEntries(f, count, filename_len, 0, <<>>) IN
              IF r.st # "ok" THEN r
              ELSE IF r.entries = <<>> \/ (Len(r.entries) = 1 /\ count > 1)
              THEN [st |-> "None", entries |-> <<>>]
              ELSE [st |-> "arc", entries |-> r.entries]

\* the loop of extract_mbl from entry i on, into the directory d: data[0] of an
\* empty entry raises IndexError, a 0x78 entry that does not inflate zlib.error
RECURSIVE ExtractGraFrom(_, _, _, _)
ExtractGraFrom(f, entries, i, d) ==
    IF i > Len(entries) THEN [st |-> "extracted", dir |-> d]
    ELSE LET data == ReadAt(f, entries[i].offset, entries[i].size) IN
         IF data = <<>> THEN [st |-> "IndexError", dir |-> d]
         ELSE IF data[1] # 120
         THEN ExtractGraFrom(f, entries, i + 1, WriteFile(d, entries[i].name, data))
         ELSE LET z == zlib_decompress(data) IN
              IF ~z.ok THEN [st |-> "ZlibError", dir |-> d]
              ELSE IF ~z.modelled THEN [st |-> "unmodelled", dir |-> d]
              ELSE ExtractGraFrom(f, entries, i + 1, WriteFile(d, entries[i].name, z.data))

\* extract_mbl(path, output_dir): how it ends, what try_open_gra_mbl gave it and
\* the directory it leaves
extract_mbl(path, f) ==
    LET arc == try_open_gra_mbl(path, f) IN
    IF arc.st = "arc"
    THEN LET x == ExtractGraFrom(f, arc.entries, 1, <<>>) IN
         [st |-> x.st, arc_file |-> arc, dir |-> x.dir]
    ELSE [st |-> IF arc.st = "None" THEN "failed" ELSE arc.st, arc_file |-> arc, dir |-> <<>>]

(***************************************************************************)
(* MgGra: PkmgGra.pack_files                                               *)
(***************************************************************************)
\* bytes[:k] of Python, k of either sign
SliceTo(bs, k) == IF k >= 0 THEN Slice(bs, 0, k) ELSE Slice(bs, 0, Len(bs) + k)

\* a variant of write_fixed_length_string that writes the whole tail b'\x00PRS'
\* whatever the length of string
write_fixed_length_string_whole_tail(string, length) ==
    Utf8Encode(string) \o <<0, 80, 82, 83>> \o Zeros(Max(0, length - (Len(string) + 4)))

\* write_fixed_length_string: the bytes it writes for string; the tail and the
\* padding are measured on len(string), the characters
write_fixed_length_string(string, length) ==
    LET btw == <<0, 80, 82, 83>> IN
    Utf8Encode(string)
        \o (IF length >= 9 THEN SliceTo(btw, length - Len(string)) ELSE btw)
        \o Zeros(Max(0, length - (Len(string) + 4)))

\* Entry.name of PkmgGra for the file called filename
PkEntryName(filename) ==
    LET name == StrLower(SplitextRoot(Basename(filename))) IN
    StrUpper(SubSeq(name, 1, Min(13, Len(name))))

\* the index PkmgGra.pack_files writes for file_paths from the i-th on
RECURSIVE PkIndex(_, _, _, _)
PkIndex(d, file_paths, i, offset) ==
    IF i > Len(file_paths) THEN <<>>
    ELSE write_fixed_length_string(PkEntryName(file_paths[i]), 13)
         \o U32LE(offset) \o U32LE(Len(d[file_paths[i]]))
         \o PkIndex(d, file_paths, i + 1, offset + Len(d[file_paths[i]]))

\* PkmgGra.pack_files(file_paths, output_file) over the directory d: the archive
\* written, or IndexError for file_data[0] of an empty file
PkmgGra_pack_files(d, file_paths) ==
    IF \E i \in 1 .. Len(file_paths) : d[file_paths[i]] = <<>>
    THEN [st |-> "IndexError", out |-> <<>>]
    ELSE [st |-> "packed",
          out |-> U32LE(Len(file_paths)) \o U32LE(13)
                  \o PkIndex(d, file_paths, 1, 8 + 21 * Len(file_paths))
                  \o Concat([i \in 1 .. Len(file_paths) |-> d[file_paths[i]]])]

(***************************************************************************)
(* MgGra: the run extract -> pack -> extract again                         *)
(***************************************************************************)
MaxGraEntries == 2          \* archives of at most MaxGraEntries entries

\* filename_len of the archives: below the range, its two ends, above it
GraNameLens == {7, 8, 64, 65}

\* the names of the archives: "a", "e" with an acute accent (two bytes of UTF-8),
\* a byte that is not UTF-8, and fourteen letters
GraNames ==
    { <<97>>, <<195, 169>>, <<255>>, [i \in 1 .. 14 |-> IF i = 14 THEN 98 ELSE 97] }

\* the payloads of the archives: two plain bytes, nothing, and the zlib streams
\* (stored blocks) of the one byte 0x78 and of the two bytes 01 02
GraPayloads ==
    { <<1, 2>>, <<>>,
      <<120, 1, 1, 1, 0, 254, 255, 120, 0, 121, 0, 121>>,
      <<120, 1, 1, 2, 0, 253, 255, 1, 2, 0, 6, 0, 4>> }

\* how an archive departs from a well-formed one named mg_gra.mbl
GraDefects == {"none", "count+1", "count=10000", "size+1", "short", "NAME", "name"}

\* "mg_gra.mbl", "MG_Gra.MBL", "mg_gra2.mbl"
GraPath(defect) ==
    IF defect = "NAME" THEN <<77, 71, 95, 71, 114, 97, 46, 77, 66, 76>>
    ELSE IF defect = "name" THEN <<109, 103, 95, 103, 114, 97, 50, 46, 109, 98, 108>>
    ELSE <<109, 103, 95, 103, 114, 97, 46, 109, 98, 108>>

\* an archive: u32 count, u32 filename_len, the records (the name in a slot of
\* filename_len bytes, u32 offset, u32 size), the payloads
MkGra(filename_len, ents, defect) ==
    LET n == Len(ents)
        data_start == 8 + n * (filename_len + 8)
        count == IF defect = "count+1" THEN n + 1
                 ELSE IF defect = "count=10000" THEN 10000 ELSE n
        whole ==
            U32LE(count) \o U32LE(filename_len)
            \o Concat([i \in 1 .. n |->
                   LET name == Slice(ents[i].name, 0, filename_len) IN
                   name \o Zeros(filename_len - Len(name))
                   \o U32LE(data_start + SumLen(ents, i - 1))
                   \o U32LE(Len(ents[i].payload)
                            + (IF defect = "size+1" /\ i = n THEN 1 ELSE 0))])
            \o Concat([i \in 1 .. n |-> ents[i].payload])
    IN  IF defect = "short" THEN Slice(whole, 0, 4) ELSE whole

InitMgGra ==
    /\ pc = "gra"
    /\ \E filename_len \in GraNameLens, defect \in GraDefects,
          ents \in SeqsUpTo([name : GraNames, payload : GraPayloads], MaxGraEntries) :
          /\ mbl = MkGra(filename_len, ents, defect)
          /\ file_path = GraPath(defect)
    /\ arc_file = <<>> /\ dir = <<>> /\ packed = <<>> /\ redir = <<>>
    /\ json = <<>> /\ patch = ""
    /\ xs = <<>>
    /\ PrsIdle

\* ExmgGra.extract_mbl(file_path, dir)
ExtractMbl ==
    /\ pc = "gra"
    /\ LET r == extract_mbl(file_path, mbl) IN
       /\ pc' = r.st
       /\ arc_file' = r.arc_file
       /\ dir' = r.dir
    /\ UNCHANGED <<mbl, file_path, packed, redir, json, patch, xs>>
    /\ UNCHANGED PrsVars

\* the orders os.listdir can give the files of d in
ListDirs(d) ==
    { order \in [1 .. Cardinality(DOMAIN d) -> DOMAIN d] :
        \A a, b \in DOMAIN order : order[a] = order[b] => a = b }

\* PkmgGra.pack_files([dir/f for f in os.listdir(dir)], packed)
PackGra ==
    /\ pc = "extracted"
    /\ \E file_paths \in ListDirs(dir) :
          LET r == PkmgGra_pack_files(dir, file_paths) IN
          /\ pc' = IF r.st = "packed" THEN "packed" ELSE "pack:" \o r.st
          /\ packed' = r.out
    /\ UNCHANGED <<mbl, file_path, arc_file, dir, redir, json, patch, xs>>
    /\ UNCHANGED PrsVars

\* ExmgGra.extract_mbl on the packed archive, stored as mg_gra.mbl, into redir
ReExtract ==
    /\ pc = "packed"
    /\ LET r == extract_mbl(GraPath("none"), packed) IN
       /\ pc' = "again:" \o r.st
       /\ redir' = r.dir
    /\ UNCHANGED <<mbl, file_path, arc_file, dir, packed, json, patch, xs>>
    /\ UNCHANGED PrsVars

NextMgGra ==
    \/ ExtractMbl
    \/ PackGra
    \/ ReExtract

SpecMgGra == InitMgGra /\ [][NextMgGra]_vars

\* PkmgGra run on its own: the input directory holds up to MaxGraEntries files
\* with ASCII names, the stems 1, 9, 10, 12, 13 and 14 characters long and ending
\* in a capital letter, with or without the extension .prs
InitPkGra ==
    /\ pc = "extracted"
    /\ LET stem(n) == [i \in 1 .. n |-> IF i = n THEN 65 + n ELSE 97]
           names == { stem(1) \o <<46, 112, 114, 115>>, stem(9), stem(10) \o <<46, 112, 114, 115>>,
                      stem(12), stem(13) \o <<46, 112, 114, 115>>, stem(14) }
           contents == { <<7>>, <<120, 1, 2>>, <<>> }
       IN  \E S \in SUBSET names :
              /\ Cardinality(S) \in 1 .. MaxGraEntries
              /\ dir \in [S -> contents]
    /\ mbl = <<>> /\ file_path = <<>> /\ arc_file = <<>>
    /\ packed = <<>> /\ redir = <<>>
    /\ json = <<>> /\ patch = ""
    /\ xs = <<>>
    /\ PrsIdle

NextPkGra ==
    \/ PackGra
    \/ ReExtract

SpecPkGra == InitPkGra /\ [][NextPkGra]_vars

(***************************************************************************)
(* MgGra: properties                                                       *)
(***************************************************************************)
\* the payloads a directory holds
Payloads(d) == { d[n] : n \in DOMAIN d }

\* the names in the 13-byte slots of the 21-byte records of a packed archive
SlotNames(arc) ==
    { UpToNul(Slice(arc, 8 + 21 * i, 8 + 21 * i + 13)) : i \in 0 .. (ReadU32(arc, 0) - 1) }

\* the names of the entries extracted to d, without ".prs", uppercased, as UTF-8
UpperNames(d) == { Utf8Encode(StrUpper(SplitextRoot(n))) : n \in DOMAIN d }

\* C9: for every MgGra archive that try_open_gra_mbl accepts, extract_mbl and then
\* PkmgGra.pack_files on the extracted files give an archive that try_open_gra_mbl
\* accepts again under the name mg_gra, that extracts to the same set of payloads,
\* and that stores each name uppercased in its 13-byte slot.
C9_Idempotent ==
    (pc # "gra" /\ arc_file.st = "arc") =>
        /\ pc \in {"extracted", "packed", "again:extracted"}
        /\ pc = "packed" => SlotNames(packed) = UpperNames(dir)
        /\ pc = "again:extracted" => Payloads(redir) = Payloads(dir)

\* the header fields of the archive and the number of its records that lie in it
GraCount == ReadU32(mbl, 0)
GraNameLen == ReadU32(mbl, 4)
GraRecords == Min(GraCount, (Len(mbl) - 8) \div (GraNameLen + 8))

\* the i-th record (from 0) of the archive has offset + size within the file; a
\* field whose top byte is 64 or more is beyond the end of any file of the model
Placed(i) ==
    LET at == 8 + i * (GraNameLen + 8) + GraNameLen IN
    /\ mbl[at + 4] < 64 /\ mbl[at + 8] < 64
    /\ ReadU32(mbl, at) + ReadU32(mbl, at + 4) <= Len(mbl)

NameLenOk == 8 <= GraNameLen /\ GraNameLen <= 64
CountOk == 0 < GraCount /\ GraCount < 10000
BaseNameOk == StrLower(SplitextRoot(Basename(file_path))) = MgGraName

\* what holds of an archive that try_open_gra_mbl returned
Accepted ==
    arc_file.st = "arc" =>
        /\ NameLenOk /\ CountOk /\ BaseNameOk
        /\ GraRecords = GraCount
        /\ \A i \in 0 .. (GraCount - 1) : Placed(i)
        /\ Len(arc_file.entries) = GraCount
        /\ \A i \in 0 .. (GraCount - 1) :
              LET at == 8 + i * (GraNameLen + 8) + GraNameLen IN
              /\ arc_file.entries[i + 1].offset = ReadU32(mbl, at)
              /\ arc_file.entries[i + 1].size = ReadU32(mbl, at + 4)

\* extract_mbl has run on a file that holds the 8-byte header
Opened == pc # "gra" /\ Len(mbl) >= 8

\* C10 as stated: whenever try_open_gra_mbl returns an archive, 8 <= name_len <=
\* 0x40, 0 < count < 10000, the base name is mg_gra case-insensitively, every
\* entry has offset + size <= file size and the entry list has count entries; if
\* any of the first four fails the function returns None and nothing is extracted.
C10_AcceptsOrNone ==
    /\ pc # "gra" => Accepted
    /\ (Opened /\ (~NameLenOk \/ ~CountOk \/ ~BaseNameOk
                     \/ \E i \in 0 .. (GraRecords - 1) : ~Placed(i)))
          => (arc_file.st = "None" /\ dir = <<>>)

\* C10 amended: whenever try_open_gra_mbl returns an archive the five conditions
\* hold; if name_len, count or the base name fails it returns None; if an entry
\* is misplaced it returns no archive (None, or an exception raised by an
\* earlier record); in either case nothing is extracted.
C10_Accepts ==
    /\ pc # "gra" => Accepted
    /\ (Opened /\ (~NameLenOk \/ ~CountOk \/ ~BaseNameOk))
          => (arc_file.st = "None" /\ dir = <<>>)
    /\ (Opened /\ \E i \in 0 .. (GraRecords - 1) : ~Placed(i))
          => (arc_file.st # "arc" /\ dir = <<>>)

\* an archive of two entries with filename_len 0x40, named MG_Gra.MBL, is returned
C10_Witness ==
    /\ pc = "extracted"
    /\ arc_file.st = "arc"
    /\ Len(arc_file.entries) = 2
    /\ GraNameLen = 64
    /\ file_path # GraPath("none")
    /\ Cardinality(DOMAIN dir) = 2

(***************************************************************************)
(* PRS: PrsReader.unpack on any file (convert_prs_to_bmp alone)            *)
(***************************************************************************)
MaxPayload == 5             \* files of at most MaxPayload bytes after the header

\* the bytes payloads are drawn from: 0x00 (a literal, a control byte without
\* matches, a short back-reference of distance 1), 0x03 (a raw run), 0x40 (a
\* control byte for a literal and then a match), 0x80 (a control byte for a match
\* at once, a mid back-reference), 0xc0 (a long one)
PayloadVals == {0, 3, 64, 128, 192}

\* the .prs files: the header of a 1x1 image of 3 bytes per pixel with flag 0 or
\* of a 2x1 image of 4 bytes per pixel with flag 0x80, a payload, and a
\* packed_size that is less than, equal to or more than the length of the payload
PrsFiles ==
    { WriteAt(Header([flag |-> d[3], bpp |-> 8 * d[2], width |-> d[1], height |-> 1])
              \o payload,
              4, U32LE(Max(0, Len(payload) + more))) :
        d \in {<<1, 3, 0>>, <<2, 4, 128>>}, more \in {-2, 0, 1},
        payload \in SeqsUpTo(PayloadVals, MaxPayload) }

InitUnpack ==
    /\ pc = "file"
    /\ file \in PrsFiles
    /\ image = <<>> /\ flag = 0 /\ metadata = <<>> /\ input = <<>> /\ output = <<>>
    /\ hash_table = <<>> /\ input_index = 0 /\ control = 0 /\ mask = 1
    /\ control_buffer = <<>> /\ rd = <<>>
    /\ xs = <<>>
    /\ ArcIdle

NextUnpack ==
    \/ OpenReader
    \/ UnpackStep
    \/ UnpackFinish

SpecUnpack == InitUnpack /\ [][NextUnpack]_vars

\* C11: during PrsReader.unpack, for every header and payload and every token
\* kind, the number of payload bytes read after the 16-byte header never exceeds
\* packed_size: the counter remaining never becomes negative.
C11_RemainingNonNegative ==
    pc # "file" =>
        /\ rd.remaining >= 0
        /\ rd.pos - 16 <= rd.packed_size

\* C12: in every state reached during and after PrsReader.unpack, for any header
\* and any payload, the length of the output buffer is width * height * bytes per
\* pixel and the write cursor dst never exceeds that length.
C12_OutputLength ==
    pc # "file" =>
        /\ Len(rd.output) = rd.width * rd.height * rd.depth
        /\ rd.dst <= rd.width * rd.height * rd.depth

\* unpack from "bit >>= 1" to the test that follows the control byte: the reader
\* with its bit moved and, when the bit ran out, the next control byte fetched
Fetched(f, r) ==
    IF r.bit \div 2 = 0
    THEN [Consumed(r) EXCEPT !.ctl = ReadByte(f, r.pos), !.bit = 128]
    ELSE [r EXCEPT !.bit = r.bit \div 2]

\* the literal branch of unpack: output[dst] = f.read(1)[0]
LiteralBranch(f, r) ==
    IF ReadByte(f, r.pos) = -1 THEN [r EXCEPT !.st = "IndexError"]
    ELSE [Consumed(r) EXCEPT !.output = [r.output EXCEPT ![r.dst + 1] = ReadByte(f, r.pos)],
                             !.dst = r.dst + 1]

\* the step of unpack that is about to be taken decodes a token: the loop goes on,
\* a control byte is at hand and remaining allows the token
TokenStep ==
    /\ pc = "unpack"
    /\ rd.remaining > 0 /\ rd.dst < Len(rd.output)
    /\ Fetched(file, rd).ctl # -1
    /\ Fetched(file, rd).remaining > 0

\* the place of the token about to be decoded in its group: 0 for the first token
\* after the control byte, 7 for the last
TokenIndex == CHOOSE j \in 0 .. 7 : Fetched(file, rd).bit * (2 ^ j) = 128

\* C13: the j-th token (j = 0..7) after a control byte C takes the match branch
\* iff bit (1 << j) of C is set and the literal branch otherwise: the control bits
\* are consumed LSB-first, in the order in which PrsWriter.pack assigns them.
C13_LsbFirst ==
    [][TokenStep =>
          IF BitAnd(Fetched(file, rd).ctl, 2 ^ TokenIndex) # 0
          THEN rd' = MatchBranch(file, Fetched(file, rd))
          ELSE rd' = LiteralBranch(file, Fetched(file, rd))]_vars

\* C14: after each iteration of the pack loop that consumes a token of length L at
\* position p (L = 1 for a literal), every position p .. p+L-1 is in the chain of
\* the hash table for its hash value; hence after any number of iterations every
\* position below input_index is registered.
C14_AllRegistered ==
    pc = "pack" =>
        \A p \in 0 .. (input_index - 1) :
            /\ Hash(input, p) \in DOMAIN hash_table
            /\ \E k \in 1 .. Len(hash_table[Hash(input, p)]) :
                  hash_table[Hash(input, p)][k] = p

\* the back-reference token that the reader r, its control bit set, is about to
\* decode from f: its back-distance D = shift + 1 and its length; kind is "none"
\* when the token is a raw run or when the file or remaining ends inside it
BackRefToken(f, r) ==
    LET b == ReadByte(f, r.pos)
        s == ReadByte(f, r.pos + 1)
        o == ReadByte(f, r.pos + 2)
    IN
    IF b = -1 THEN [kind |-> "none"]
    ELSE IF b < 128
    THEN IF b % 4 = 3 THEN [kind |-> "none"]
         ELSE [kind |-> "short", D |-> (b \div 4) + 1, length |-> (b % 4) + 2]
    ELSE IF r.remaining - 1 <= 0 \/ s = -1 THEN [kind |-> "none"]
    ELSE IF (b \div 64) % 2 = 0
    THEN [kind |-> "mid", D |-> (((b % 64) * 256 + s) \div 16) + 1, length |-> (s % 16) + 3]
    ELSE IF r.remaining - 2 <= 0 \/ o = -1 THEN [kind |-> "none"]
    ELSE [kind |-> "long", D |-> (b % 64) * 256 + s + 1, length |-> length_table(o)]

\* the step about to be taken decodes a back-reference token
BackRefStep ==
    /\ TokenStep
    /\ BitAnd(Fetched(file, rd).ctl, Fetched(file, rd).bit) # 0
    /\ BackRefToken(file, Fetched(file, rd)).kind # "none"

\* C15: whenever a back-reference token yields a back-distance D = shift + 1 with
\* D > dst, decoding fails with an error before any byte of the token is copied;
\* otherwise the copy reads only output indices >= 0 and copies exactly
\* min(length, N - dst) bytes one by one, each the byte D places before it in
\* the buffer as it then stands (so that D = 1 replicates the previous byte); N is
\* the length of the output buffer, width * height * bytes per pixel.
C15_BackReference ==
    [][BackRefStep =>
          LET t == BackRefToken(file, Fetched(file, rd))
              N == rd.width * rd.height * rd.depth
              n == Min(t.length, N - rd.dst)
          IN
          IF Len(rd.output) # N THEN FALSE
          ELSE IF t.D > rd.dst
          THEN /\ rd'.st = "ValueError"
               /\ rd'.output = rd.output
               /\ rd'.dst = rd.dst
          ELSE /\ rd'.st = "loop"
               /\ rd'.dst = rd.dst + n
               /\ Len(rd'.output) = N
               /\ \A i \in 0 .. (N - 1) :
                     IF i >= rd.dst /\ i < rd.dst + n
                     THEN i - t.D >= 0 /\ rd'.output[i + 1] = rd'.output[i - t.D + 1]
                     ELSE rd'.output[i + 1] = rd.output[i + 1]]_vars

\* a mid back-reference of distance 1 and length 3 after the literal 03 has filled
\* the 1x1 RGB buffer with 03: the copy was cut to the 2 bytes of room and the
\* second byte copied is the first byte copied
C15_Witness ==
    /\ pc = "unpack"
    /\ rd.ctl = 64 /\ rd.bit = 64
    /\ Slice(file, 17, 20) = <<3, 128, 0>>
    /\ rd.pos = 20
    /\ rd.dst = 3
    /\ rd.output = <<3, 3, 3>>

\* C16: the archive PkMgData.pack_files writes is a u32 count M (the number of
\* sidecar entries whose file is in the input directory), M records of entry_size
\* bytes in sidecar order, 4 zero bytes, then the payloads; the offset stored in
\* record i is 4 + M * entry_size + 4 + the sizes of records 0..i-1, and the size
\* bytes at that offset are the XOR-encrypted contents of the file of entry i.
C16_Layout ==
    pc = "repacked" =>
        LET P == json.parameters
            avail == AvailableFiles(dir, json)
            M == Cardinality({ k \in 1 .. Len(json.entries) : json.entries[k].name \in DOMAIN dir })
            data_start == 4 + M * P.entry_size + 4
        IN  /\ ReadU32(packed, 0) = M
            /\ Len(avail) = M
            /\ Len(packed) = data_start + SizesBefore(avail, M)
            /\ Slice(packed, data_start - 4, data_start) = <<0, 0, 0, 0>>
            /\ \A i \in 0 .. (M - 1) :
                  LET rec == RecordOf(packed, P, i)
                      offset == ReadU32(rec, P.file_offset)
                      size == ReadU32(rec, P.size_offset)
                  IN  /\ offset = data_start + SizesBefore(avail, i)
                      /\ size = Len(dir[avail[i + 1].name])
                      /\ Slice(packed, offset, offset + size)
                            = xor_encrypt(dir[avail[i + 1].name], KEY)

====
